---- MODULE Spec2Model ----
(***************************************************************************)
(* yt-lecture-notes: the transformation pipeline of src/main.py and        *)
(* src/generator.py (fetch -> refine -> classify -> generate -> compile).  *)
(*                                                                         *)
(* A text is a sequence of one-character strings, so that strip, replace,  *)
(* splitlines, substring search and len are computed as Python computes    *)
(* them.  The external collaborators (transcript service, generative       *)
(* service, pdflatex, the file system) are the environment: each call      *)
(* draws its outcome from a small set.                                     *)
(***************************************************************************)
EXTENDS Integers, Sequences, FiniteSets, TLC

VARIABLES
    entry,          \* the function this run invoked: main, or a generator.py function called directly
    pc,             \* position in the running function
    url,            \* args.url
    api_key,        \* args.api_key
    no_pdf,         \* args.no_pdf
    cwd,            \* the process working directory (os.getcwd())
    fs,             \* contents of the output directory
    transcript,     \* main's local transcript
    latex_content,  \* main's local latex_content / the value generate_latex_notes returned
    refine,         \* the call of refine_transcript_for_notes made by the fetcher
    cls,            \* the call of classify_transcript_subject
    gen,            \* the generation request of generate_latex_notes
    original_cwd,   \* main's local original_cwd
    comp,           \* locals of compile_latex_to_pdf and the tool runs it started
    exc,            \* the exception in flight or caught ("none" when there is none)
    exit_status,    \* sys.exit status (-1 while running)
    log             \* what was logged or printed, in order

vars == << entry, pc, url, api_key, no_pdf, cwd, fs, transcript, latex_content,
           refine, cls, gen, original_cwd, comp, exc, exit_status, log >>

---------------------------------------------------------------------------
\* Program constants

\* main.py:132  len(transcript.strip()) < 200
MinTranscriptLen == 200

\* generator.py:271  for _ in range(2)
Passes == 2

\* generator.py:24  ([0-9A-Za-z_-]{11})
IdLen == 11

---------------------------------------------------------------------------
\* Bounds of the model

\* longest generation response enumerated exhaustively (SpecNotes)
MaxLen == 5

---------------------------------------------------------------------------
\* Texts

\* the character U+0060, which a TLA+ string literal cannot hold
Backtick == "BACKTICK"

\* Python's None; no text equals it (a text holds one-character strings only)
None == << "None" >>

Rep(ch, n) == [i \in 1..n |-> ch]

SetMin(S) == CHOOSE x \in S : \A y \in S : x <= y

SetMax(S) == CHOOSE x \in S : \A y \in S : x >= y

\* the characters str.strip() removes and str.splitlines() breaks at
WS == {" ", "\n", "\t", "\r"}

LineBreaks == {"\n", "\r"}

\* the text is white space only
AllBlank(s) == \A i \in 1..Len(s) : s[i] \in WS

\* the positions of the first and of the last character that is not white space
FirstInk(s) == CHOOSE i \in 1..Len(s) : s[i] \notin WS /\ \A j \in 1..(i - 1) : s[j] \in WS

LastInk(s) ==
    CHOOSE i \in 1..Len(s) : s[i] \notin WS /\ \A j \in (i + 1)..Len(s) : s[j] \in WS

\* str.strip()
Strip(s) == IF AllBlank(s) THEN << >> ELSE SubSeq(s, FirstInk(s), LastInk(s))

\* str.lstrip()
LStrip(s) == IF AllBlank(s) THEN << >> ELSE SubSeq(s, FirstInk(s), Len(s))

\* str.rstrip()
RStrip(s) == IF AllBlank(s) THEN << >> ELSE SubSeq(s, 1, LastInk(s))

\* str.startswith(p)
StartsWith(s, p) == Len(s) >= Len(p) /\ SubSeq(s, 1, Len(p)) = p

\* sub in s
Contains(s, sub) ==
    \E i \in 0..(Len(s) - Len(sub)) : SubSeq(s, i + 1, i + Len(sub)) = sub

\* s.replace(sub, ''): the leftmost occurrence is cut out, and the search goes
\* on behind it
RECURSIVE RemoveAll(_, _)
RemoveAll(s, sub) ==
    LET hits == {i \in 1..(Len(s) - Len(sub) + 1) : SubSeq(s, i, i + Len(sub) - 1) = sub}
    IN  IF hits = {} THEN s
        ELSE LET i == SetMin(hits)
             IN  SubSeq(s, 1, i - 1) \o RemoveAll(SubSeq(s, i + Len(sub), Len(s)), sub)

\* str.splitlines(): breaks at \n, \r and \r\n; no final empty line
RECURSIVE SplitLines(_)
SplitLines(s) ==
    IF s = << >> THEN << >>
    ELSE LET brk == {i \in 1..Len(s) : s[i] \in LineBreaks}
         IN  IF brk = {} THEN << s >>
             ELSE LET i == SetMin(brk)
                      j == IF s[i] = "\r" /\ i < Len(s) /\ s[i + 1] = "\n"
                           THEN i + 1 ELSE i
                  IN  << SubSeq(s, 1, i - 1) >> \o SplitLines(SubSeq(s, j + 1, Len(s)))

\* sep.join(parts)
RECURSIVE Join(_, _)
Join(sep, parts) ==
    IF parts = << >> THEN << >>
    ELSE IF Len(parts) = 1 THEN parts[1]
         ELSE parts[1] \o sep \o Join(sep, Tail(parts))

UpperLetters ==
    << "A", "B", "C", "D", "E", "F", "G", "H", "I", "J", "K", "L", "M", "N", "O", "P",
       "Q", "R", "S", "T", "U", "V", "W", "X", "Y", "Z" >>

LowerLetters ==
    << "a", "b", "c", "d", "e", "f", "g", "h", "i", "j", "k", "l", "m", "n", "o", "p",
       "q", "r", "s", "t", "u", "v", "w", "x", "y", "z" >>

Digits ==
    << "0", "1", "2", "3", "4", "5", "6", "7", "8", "9" >>

\* str.lower(), one character
LowerChar(ch) ==
    IF \E i \in 1..Len(UpperLetters) : UpperLetters[i] = ch
    THEN LowerLetters[CHOOSE i \in 1..Len(UpperLetters) : UpperLetters[i] = ch]
    ELSE ch

\* str.lower()
Lower(s) == [i \in 1..Len(s) |-> LowerChar(s[i])]

\* every text over the alphabet of length n, and of length at most n
TextsOfLen(alphabet, n) == [1..n -> alphabet]

TextsUpTo(alphabet, n) == UNION {TextsOfLen(alphabet, k) : k \in 0..n}

---------------------------------------------------------------------------
\* String literals of the source

\* generator.py:26
InvalidUrlText ==
    << "I", "n", "v", "a", "l", "i", "d", " ", "Y", "o", "u", "T", "u", "b", "e", " ",
       "U", "R", "L" >>

\* generator.py:42
FetchErrorPrefix ==
    << "E", "r", "r", "o", "r", " ", "f", "e", "t", "c", "h", "i", "n", "g", " ", "t",
       "r", "a", "n", "s", "c", "r", "i", "p", "t", ":", " " >>

\* generator.py:42
FetchErrorSuffix ==
    << " ", "(", "C", "o", "m", "m", "o", "n", " ", "c", "a", "u", "s", "e", "s", ":",
       " ", "n", "o", " ", "c", "a", "p", "t", "i", "o", "n", "s", ",", " ", "p", "r",
       "i", "v", "a", "t", "e", " ", "v", "i", "d", "e", "o", ",", " ", "r", "e", "g",
       "i", "o", "n", "-", "r", "e", "s", "t", "r", "i", "c", "t", "e", "d", ",", " ",
       "s", "u", "b", "t", "i", "t", "l", "e", "s", " ", "d", "i", "s", "a", "b", "l",
       "e", "d", ")" >>

\* generator.py:241
NoResponseText ==
    << "E", "r", "r", "o", "r", ":", " ", "N", "o", " ", "r", "e", "s", "p", "o", "n",
       "s", "e", " ", "f", "r", "o", "m", " ", "G", "e", "m", "i", "n", "i" >>

\* generator.py:253
GenErrorPrefix ==
    << "E", "r", "r", "o", "r", " ", "d", "u", "r", "i", "n", "g", " ", "L", "a", "T",
       "e", "X", " ", "g", "e", "n", "e", "r", "a", "t", "i", "o", "n", ":", " " >>

\* generator.py:84, 245, 247
Fence ==
    << Backtick, Backtick, Backtick >>

\* "Error": the word every error payload of the generator starts with
ErrorWord == SubSeq(NoResponseText, 1, 5)

\* generator.py:96  categories, in the declared order
categories ==
    << << "M", "a", "t", "h" >>,
       << "P", "r", "o", "g", "r", "a", "m", "m", "i", "n", "g" >>,
       << "C", "h", "e", "m", "i", "s", "t", "r", "y" >>,
       << "P", "h", "y", "s", "i", "c", "s" >>,
       << "M", "a", "c", "h", "i", "n", "e", "L", "e", "a", "r", "n", "i", "n", "g" >>,
       << "G", "e", "n", "e", "r", "a", "l" >> >>

General == categories[6]

CategorySet == {categories[i] : i \in 1..Len(categories)}

---------------------------------------------------------------------------
\* Inputs and outcomes of the environment

\* a short-link URL (main.py:31)
UrlShort ==
    << "h", "t", "t", "p", "s", ":", "/", "/", "y", "o", "u", "t", "u", ".", "b", "e",
       "/", "d", "Q", "w", "4", "w", "9", "W", "g", "X", "c", "Q" >>

\* a URL whose v= token is shorter than 11 characters (main.py:32)
UrlBadId ==
    << "h", "t", "t", "p", "s", ":", "/", "/", "y", "o", "u", "t", "u", "b", "e", ".",
       "c", "o", "m", "/", "w", "a", "t", "c", "h", "?", "v", "=", "a", "b", "c", "1",
       "2", "3" >>

\* messages of the exceptions the collaborators raise
MsgDisabled ==
    << "S", "u", "b", "t", "i", "t", "l", "e", "s", " ", "a", "r", "e", " ", "d", "i",
       "s", "a", "b", "l", "e", "d", " ", "f", "o", "r", " ", "t", "h", "i", "s", " ",
       "v", "i", "d", "e", "o" >>

MsgUnavailable ==
    << "C", "o", "u", "l", "d", " ", "n", "o", "t", " ", "r", "e", "t", "r", "i", "e",
       "v", "e", " ", "a", " ", "t", "r", "a", "n", "s", "c", "r", "i", "p", "t", " ",
       "f", "o", "r", " ", "t", "h", "e", " ", "v", "i", "d", "e", "o", "!", " ", "T",
       "h", "i", "s", " ", "i", "s", " ", "m", "o", "s", "t", " ", "l", "i", "k", "e",
       "l", "y", " ", "c", "a", "u", "s", "e", "d", " ", "b", "y", ":", " ", "t", "h",
       "e", " ", "v", "i", "d", "e", "o", " ", "i", "s", " ", "n", "o", " ", "l", "o",
       "n", "g", "e", "r", " ", "a", "v", "a", "i", "l", "a", "b", "l", "e", " ", "o",
       "r", " ", "i", "s", " ", "p", "r", "i", "v", "a", "t", "e" >>

MsgMissingKey ==
    << "M", "i", "s", "s", "i", "n", "g", " ", "k", "e", "y", " ", "i", "n", "p", "u",
       "t", "s", " ", "a", "r", "g", "u", "m", "e", "n", "t", "!", " ", "T", "o", " ",
       "u", "s", "e", " ", "t", "h", "e", " ", "G", "o", "o", "g", "l", "e", " ", "A",
       "I", " ", "A", "P", "I", ",", " ", "p", "r", "o", "v", "i", "d", "e", " ", "(",
       Backtick, "a", "p", "i", "_", "k", "e", "y", Backtick, ")", " ", "a", "r", "g", "u", "m",
       "e", "n", "t", "s", ".", " ", "T", "o", " ", "u", "s", "e", " ", "t", "h", "e",
       " ", "G", "o", "o", "g", "l", "e", " ", "C", "l", "o", "u", "d", " ", "A", "P",
       "I", ",", " ", "p", "r", "o", "v", "i", "d", "e", " ", "(", Backtick, "v", "e", "r",
       "t", "e", "x", "a", "i", Backtick, ",", " ", Backtick, "p", "r", "o", "j", "e", "c", "t",
       Backtick, " ", "&", " ", Backtick, "l", "o", "c", "a", "t", "i", "o", "n", Backtick, ")", " ",
       "a", "r", "g", "u", "m", "e", "n", "t", "s", "." >>

MsgNoneType ==
    << "A", "t", "t", "r", "i", "b", "u", "t", "e", "E", "r", "r", "o", "r" >>

MsgQuota ==
    << "4", "2", "9", " ", "R", "E", "S", "O", "U", "R", "C", "E", "_", "E", "X", "H",
       "A", "U", "S", "T", "E", "D" >>

\* a value returned, or an exception raised, by a function or a service call
Returned(v) == [raised |-> FALSE, value |-> v, msg |-> << >>]

Raised(m) == [raised |-> TRUE, value |-> None, msg |-> m]

\* argument values of --api-key: empty, or a key the client accepts
ApiKeys == {"", "KEY"}

Urls == {UrlShort, UrlBadId}

\* caption records the transcript service returns (their text fields, in order)
CaptionLists ==
    { << Rep("a", 120), Rep("b", 79) >>,
      << Rep("a", 199) >>,
      << Rep(" ", 100), Rep("a", 120) >>,
      << >> }

\* outcomes of YouTubeTranscriptApi().fetch(video_id).to_raw_data()
FetchOutcomes ==
    {Returned(c) : c \in CaptionLists} \cup {Raised(MsgDisabled), Raised(MsgUnavailable)}

\* outcomes of the refinement request
RefineOutcomes ==
    { Returned(None), Returned(<< >>), Raised(MsgQuota),
      Returned(<< " " >> \o Rep("w", 210) \o << "\n" >>),
      Returned(Fence \o Rep("w", 198) \o Fence) }

ClsTexts ==
    { << "P", "h", "y", "s", "i", "c", "s" >>,
      << "p", "h", "y", "s", "i", "c", "s", "\n" >>,
      << "M", "A", "T", "H" >>,
      << "P", "r", "o", "g", "r", "a", "m", "m", "i", "n", "g", " ", "a", "n", "d", " ",
         "M", "a", "t", "h" >>,
      << "M", "a", "c", "h", "i", "n", "e", " ", "L", "e", "a", "r", "n", "i", "n", "g" >>,
      << "B", "i", "o", "l", "o", "g", "y" >>,
      << >>,
      << "T", "h", "e", " ", "s", "u", "b", "j", "e", "c", "t", " ", "i", "s", " ",
         "C", "h", "e", "m", "i", "s", "t", "r", "y", "." >>,
      << "m", "a", "c", "h", "i", "n", "e", "l", "e", "a", "r", "n", "i", "n", "g" >>,
      << "G", "e", "n", "e", "r", "a", "l" >> }

\* outcomes of the classification request
ClsOutcomes == {Returned(t) : t \in ClsTexts} \cup {Returned(None), Raised(MsgQuota)}

DocText ==
    << "\\", "d", "o", "c", "u", "m", "e", "n", "t", "c", "l", "a", "s", "s", "\n",
       " ", " ", "x", "\n", "\\", "e", "n", "d" >>

FencedDocText == Fence \o << "l", "a", "t", "e", "x", "\n" >> \o DocText \o << "\n" >> \o Fence

\* the characters of the exhaustively enumerated generation responses
GenAlphabet == {Backtick, " ", "\n", "a"}

\* outcomes of the generation request: a few documents when main runs the
\* pipeline, every short text when generate_latex_notes is called directly
GenOutcomes ==
    IF entry = "main"
    THEN {Returned(DocText), Returned(FencedDocText), Returned(None), Raised(MsgQuota)}
    ELSE {Returned(t) : t \in TextsUpTo(GenAlphabet, MaxLen)}
         \cup {Returned(None), Raised(MsgQuota)}

\* outcomes of a file-system call
IoOutcomes == {"ok", "OSError"}

\* outcomes of os.chdir(output_dir)
ChdirOutcomes == {"ok", "FileNotFoundError", "PermissionError"}

\* outcomes of one subprocess.run(["pdflatex", ...], check=True)
ToolOutcomes == {"ok", "CalledProcessError", "FileNotFoundError"}

\* generator.py:284  the byproduct extensions deleted on success, in order
ByproductExts == << ".aux", ".log", ".out", ".toc", ".fls", ".fdb_latexmk" >>

\* the byproducts one successful tool run leaves
ToolByproducts == { {".aux", ".log"}, {".aux", ".log", ".toc", ".nav"} }

\* directories
StartDir == "/work"

OutputDir == "/work/lecture_dQw4w9WgXcQ"

\* a text left in the output directory by an earlier run
StaleText == << "o", "l", "d" >>

\* an output directory without files
EmptyDir == [transcript |-> None, tex |-> None, pdf |-> "none", aux |-> {}]

\* states of the output directory before the run: empty, or holding the files
\* of an earlier run
PriorFs ==
    { EmptyDir,
      [transcript |-> StaleText, tex |-> StaleText, pdf |-> "stale", aux |-> {".log"}] }

---------------------------------------------------------------------------
\* generator.py, the functions without file-system effects

IdChars ==
    {UpperLetters[i] : i \in 1..Len(UpperLetters)}
    \cup {LowerLetters[i] : i \in 1..Len(LowerLetters)}
    \cup {Digits[i] : i \in 1..Len(Digits)} \cup {"_", "-"}

\* where the token would start for a match of (?:v=|\/) at position i; 0 if none
TokenStart(u, i) ==
    IF u[i] = "/" THEN i + 1
    ELSE IF u[i] = "v" /\ i < Len(u) /\ u[i + 1] = "=" THEN i + 2
    ELSE 0

\* re.search(r"(?:v=|\/)([0-9A-Za-z_-]{11}).*", url): group 1 of the leftmost match
VideoIdMatch(u) ==
    LET hits == {i \in 1..Len(u) :
                    LET k == TokenStart(u, i)
                    IN  /\ k > 0
                        /\ k + IdLen - 1 <= Len(u)
                        /\ \A j \in k..(k + IdLen - 1) : u[j] \in IdChars}
    IN  IF hits = {} THEN None
        ELSE LET k == TokenStart(u, SetMin(hits)) IN SubSeq(u, k, k + IdLen - 1)

\* genai.Client(api_key=api_key) raises when it is given no key
ClientConstructs(key) == key # ""

\* not response.text
EmptyResponse(resp) == resp.value = None \/ resp.value = << >>

\* refine_transcript_for_notes(raw_transcript, api_key), resp the service's answer
RefineTranscriptForNotes(raw, key, resp) ==
    IF ~ClientConstructs(key) THEN Raised(MsgMissingKey)
    ELSE IF resp.raised THEN Returned(raw)
    ELSE IF EmptyResponse(resp) THEN Returned(raw)
    ELSE Returned(Strip(RemoveAll(Strip(resp.value), Fence)))

\* the payload of the except clause of get_youtube_transcript
FetchErrorText(m) == FetchErrorPrefix \o m \o FetchErrorSuffix

\* get_youtube_transcript(youtube_url, api_key)
GetYoutubeTranscript(u, key, fetched, resp) ==
    IF VideoIdMatch(u) = None THEN InvalidUrlText
    ELSE IF fetched.raised THEN FetchErrorText(fetched.msg)
    ELSE LET raw_transcript == Join(<< " " >>, fetched.value)
             refined == RefineTranscriptForNotes(raw_transcript, key, resp)
         IN  IF refined.raised THEN FetchErrorText(refined.msg) ELSE refined.value

\* classify_transcript_subject without its try/except and its fallback
ClassifyNoGuard(key, resp) ==
    IF ~ClientConstructs(key) THEN Raised(MsgMissingKey)
    ELSE IF resp.raised THEN Raised(resp.msg)
    ELSE IF resp.value = None THEN Raised(MsgNoneType)
    ELSE LET text == Strip(resp.value)
             hits == {i \in 1..Len(categories) :
                         Contains(Lower(text), Lower(categories[i]))}
         IN  Returned(IF hits = {} THEN text ELSE categories[SetMin(hits)])

\* classify_transcript_subject(transcript, api_key), resp the service's answer;
\* None.strip() raises AttributeError, which the except clause of 129 absorbs
ClassifyTranscriptSubject(key, resp) ==
    IF ~ClientConstructs(key) THEN Raised(MsgMissingKey)
    ELSE IF resp.raised THEN Returned(General)
    ELSE IF resp.value = None THEN Returned(General)
    ELSE LET text == Strip(resp.value)
             hits == {i \in 1..Len(categories) :
                         Contains(Lower(text), Lower(categories[i]))}
         IN  Returned(IF hits = {} THEN General ELSE categories[SetMin(hits)])

\* get_subject_prompt(subject): the template, named by the category it is written for
GetSubjectPrompt(subject) == IF subject \in CategorySet THEN subject ELSE General

\* a line with a fence anywhere in it
FenceAnywhere(line) == Contains(line, Fence)

\* line.strip().startswith(fence)
IsFenceLine(line) == StartsWith(Strip(line), Fence)

\* [line for line in lines if not line.strip().startswith(fence)]
RECURSIVE CleanedLines(_)
CleanedLines(lines) ==
    IF lines = << >> THEN << >>
    ELSE IF IsFenceLine(Head(lines)) THEN CleanedLines(Tail(lines))
         ELSE << Head(lines) >> \o CleanedLines(Tail(lines))

\* generator.py:243-250  the response text, stripped and without its fence lines
SanitizeLatex(text) ==
    LET latex_code == Strip(text)
    IN  IF Contains(latex_code, Fence)
        THEN Strip(Join(<< "\n" >>, CleanedLines(SplitLines(latex_code))))
        ELSE latex_code

\* generator.py:235-253  what generate_latex_notes returns for the service's answer
GenerationResult(resp) ==
    IF resp.raised THEN GenErrorPrefix \o resp.msg
    ELSE IF EmptyResponse(resp) THEN NoResponseText
    ELSE SanitizeLatex(resp.value)

---------------------------------------------------------------------------
\* State

\* a call that has not been made
NotCalled ==
    [called |-> FALSE, arg |-> None, resp |-> Returned(None), result |-> Returned(None)]

\* a call made with argument arg, the service answering resp (Returned(None)
\* when the service was not reached) and ending in result
Called(arg, resp, result) ==
    [called |-> TRUE, arg |-> arg, resp |-> resp, result |-> result]

\* compile_latex_to_pdf before it is called
NoCompile ==
    [called |-> FALSE, arg_dir |-> ".", output_dir |-> "", cwd_at_call |-> "",
     original_cwd |-> "", runs |-> << >>]

\* the length check without strip()
TooShortUnstripped(t) == Len(t) < MinTranscriptLen

\* main.py:132  len(transcript.strip()) < 200
TooShort(t) == Len(Strip(t)) < MinTranscriptLen

\* main.py:174-176  except Exception: logger.exception(...); sys.exit(2)
Fatal(kind) ==
    /\ pc' = "exited"
    /\ exc' = kind
    /\ exit_status' = 2
    /\ log' = Append(log, "Error occurred:")

\* an exception leaves the function main or the caller invoked
Propagate(kind) ==
    IF entry = "main"
    THEN Fatal(kind)
    ELSE /\ pc' = "raised"
         /\ exc' = kind
         /\ UNCHANGED << exit_status, log >>

\* the function the caller invoked returns; main goes on at next
ReturnTo(next) == pc' = IF entry = "main" THEN next ELSE "returned"

\* main.py:94-126  main after parse_arguments and output_dir.mkdir
Init ==
    /\ entry = "main"
    /\ pc = "fetch"
    /\ url \in Urls
    /\ api_key \in ApiKeys
    /\ no_pdf \in BOOLEAN
    /\ cwd = StartDir
    /\ fs \in PriorFs
    /\ transcript = None
    /\ latex_content = None
    /\ refine = NotCalled
    /\ cls = NotCalled
    /\ gen = NotCalled
    /\ original_cwd = ""
    /\ comp = NoCompile
    /\ exc = "none"
    /\ exit_status = -1
    /\ log = << >>

\* generate_latex_notes(transcript, api_key) called directly
InitNotes ==
    /\ entry = "generate_latex_notes"
    /\ pc = "g_client"
    /\ url = << >>
    /\ api_key \in ApiKeys
    /\ no_pdf = TRUE
    /\ cwd = StartDir
    /\ fs = EmptyDir
    /\ transcript \in {<< >>, Rep("a", MinTranscriptLen)}
    /\ latex_content = None
    /\ refine = NotCalled
    /\ cls = NotCalled
    /\ gen = NotCalled
    /\ original_cwd = ""
    /\ comp = NoCompile
    /\ exc = "none"
    /\ exit_status = -1
    /\ log = << >>

\* compile_latex_to_pdf(latex_code, filename, output_dir) called directly, from
\* any working directory, with the default output_dir "." or an explicit one
InitCompile ==
    /\ entry = "compile_latex_to_pdf"
    /\ pc = "c_mkdir"
    /\ url = << >>
    /\ api_key = "KEY"
    /\ no_pdf = FALSE
    /\ cwd \in {StartDir, OutputDir}
    /\ fs \in PriorFs
    /\ transcript = None
    /\ latex_content \in {DocText, NoResponseText}
    /\ refine = NotCalled
    /\ cls = NotCalled
    /\ gen = NotCalled
    /\ original_cwd = ""
    /\ \E d \in {".", OutputDir} :
          comp = [NoCompile EXCEPT !.called = TRUE, !.arg_dir = d, !.cwd_at_call = cwd]
    /\ exc = "none"
    /\ exit_status = -1
    /\ log = << >>

---------------------------------------------------------------------------
\* main.py, main

\* main.py:128-130  transcript = get_youtube_transcript(args.url, args.api_key)
FetchTranscript ==
    /\ pc = "fetch"
    /\ \E fetched \in FetchOutcomes, resp \in RefineOutcomes :
          LET reached == VideoIdMatch(url) # None /\ ~fetched.raised
              raw     == Join(<< " " >>, fetched.value)
              asked   == reached /\ ClientConstructs(api_key)
          IN  /\ transcript' = GetYoutubeTranscript(url, api_key, fetched, resp)
              /\ refine' = IF reached
                           THEN Called(raw, IF asked THEN resp ELSE Returned(None),
                                       RefineTranscriptForNotes(raw, api_key, resp))
                           ELSE refine
    /\ pc' = "check_len"
    /\ UNCHANGED << entry, url, api_key, no_pdf, cwd, fs, latex_content, cls, gen,
                    original_cwd, comp, exc, exit_status, log >>

\* main.py:132-135  raise ValueError("Transcript is too short or empty")
CheckLength ==
    /\ pc = "check_len"
    /\ IF TooShort(transcript)
       THEN Fatal("ValueError: Transcript is too short or empty")
       ELSE /\ pc' = "write_transcript"
            /\ UNCHANGED << exc, exit_status, log >>
    /\ UNCHANGED << entry, url, api_key, no_pdf, cwd, fs, transcript, latex_content,
                    refine, cls, gen, original_cwd, comp >>

\* the transcript written to the path of the document source
WriteTranscriptToTex ==
    /\ pc = "write_transcript"
    /\ fs' = [fs EXCEPT !.tex = transcript]
    /\ pc' = "g_client"
    /\ UNCHANGED << entry, url, api_key, no_pdf, cwd, transcript, latex_content,
                    refine, cls, gen, original_cwd, comp, exc, exit_status, log >>

\* main.py:137-142  transcript_path.write_text(transcript), then the call of
\* generate_latex_notes
WriteTranscript ==
    /\ pc = "write_transcript"
    /\ \E io \in IoOutcomes :
          IF io = "ok"
          THEN /\ fs' = [fs EXCEPT !.transcript = transcript]
               /\ pc' = "g_client"
               /\ log' = Append(log, "Saved raw transcript")
               /\ UNCHANGED << exc, exit_status >>
          ELSE /\ Fatal("OSError: transcript.txt")
               /\ UNCHANGED fs
    /\ UNCHANGED << entry, url, api_key, no_pdf, cwd, transcript, latex_content,
                    refine, cls, gen, original_cwd, comp >>

---------------------------------------------------------------------------
\* generator.py, generate_latex_notes

\* generator.py:227-228  client = genai.Client(api_key=api_key)
GenClient ==
    /\ pc = "g_client"
    /\ IF ClientConstructs(api_key)
       THEN /\ pc' = "g_classify"
            /\ UNCHANGED << exc, exit_status, log >>
       ELSE Propagate("ValueError: Missing key inputs argument")
    /\ UNCHANGED << entry, url, api_key, no_pdf, cwd, fs, transcript, latex_content,
                    refine, cls, gen, original_cwd, comp >>

\* generator.py:230  subject = classify_transcript_subject(transcript, api_key)
GenClassify ==
    /\ pc = "g_classify"
    /\ \E resp \in ClsOutcomes :
          LET result == ClassifyTranscriptSubject(api_key, resp)
          IN  /\ cls' = Called(transcript,
                               IF ClientConstructs(api_key) THEN resp ELSE Returned(None),
                               result)
              /\ IF result.raised
                 THEN Propagate("ValueError: Missing key inputs argument")
                 ELSE /\ pc' = "g_request"
                      /\ UNCHANGED << exc, exit_status, log >>
    /\ UNCHANGED << entry, url, api_key, no_pdf, cwd, fs, transcript, latex_content,
                    refine, gen, original_cwd, comp >>

\* generator.py:232-253  the generation request and its sanitized result
GenRequest ==
    /\ pc = "g_request"
    /\ \E resp \in GenOutcomes :
          /\ gen' = Called(GetSubjectPrompt(cls.result.value), resp,
                           Returned(GenerationResult(resp)))
          /\ latex_content' = GenerationResult(resp)
    /\ ReturnTo("write_tex")
    /\ UNCHANGED << entry, url, api_key, no_pdf, cwd, fs, transcript, refine, cls,
                    original_cwd, comp, exc, exit_status, log >>

---------------------------------------------------------------------------
\* main.py, main, continued

\* main.py:144-148  tex_path.write_text(latex_content); if not args.no_pdf
WriteTex ==
    /\ pc = "write_tex"
    /\ \E io \in IoOutcomes :
          IF io = "ok"
          THEN /\ fs' = [fs EXCEPT !.tex = latex_content]
               /\ pc' = IF no_pdf THEN "summary" ELSE "m_chdir"
               /\ log' = Append(log, "LaTeX file created")
               /\ UNCHANGED << exc, exit_status >>
          ELSE /\ Fatal("OSError: lecture_notes.tex")
               /\ UNCHANGED fs
    /\ UNCHANGED << entry, url, api_key, no_pdf, cwd, transcript, latex_content,
                    refine, cls, gen, original_cwd, comp >>

\* main.py:149-155  original_cwd = os.getcwd(); os.chdir(output_dir);
\* compile_latex_to_pdf(latex_content, base_name)
MainChdir ==
    /\ pc = "m_chdir"
    /\ original_cwd' = cwd
    /\ \E io \in IoOutcomes :
          IF io = "ok"
          THEN /\ cwd' = OutputDir
               /\ comp' = [NoCompile EXCEPT !.called = TRUE, !.cwd_at_call = OutputDir]
               /\ pc' = "c_mkdir"
               /\ UNCHANGED << exc, exit_status, log >>
          ELSE /\ Fatal("OSError: chdir")
               /\ UNCHANGED << cwd, comp >>
    /\ UNCHANGED << entry, url, api_key, no_pdf, fs, transcript, latex_content,
                    refine, cls, gen >>

---------------------------------------------------------------------------
\* generator.py, compile_latex_to_pdf

\* an exception leaves compile_latex_to_pdf; in main, the finally clause of
\* main.py:156-157 restores the working directory on the way out
EscapeCompile(kind) ==
    /\ Propagate(kind)
    /\ cwd' = IF entry = "main" THEN original_cwd ELSE cwd

\* compile_latex_to_pdf returns normally after printing msg
FinishCompile(msg) ==
    /\ ReturnTo("m_finally")
    /\ log' = Append(log, msg)
    /\ UNCHANGED << exc, exit_status >>

\* subprocess.run without check=True: only a missing binary raises
PassAbortsOnlyIfMissing(outcome) == outcome = "FileNotFoundError"

\* generator.py:274  check=True: a run that did not exit with success raises
PassAborts(outcome) == outcome # "ok"

\* generator.py:260-261  output_dir = Path(output_dir).resolve(); output_dir.mkdir(...)
CompileMkdir ==
    /\ pc = "c_mkdir"
    /\ \E io \in IoOutcomes :
          IF io = "ok"
          THEN /\ comp' = [comp EXCEPT !.output_dir =
                              IF comp.arg_dir = "." THEN cwd ELSE comp.arg_dir]
               /\ pc' = "c_write"
               /\ UNCHANGED << cwd, exc, exit_status, log >>
          ELSE /\ EscapeCompile("OSError: mkdir")
               /\ UNCHANGED comp
    /\ UNCHANGED << entry, url, api_key, no_pdf, fs, transcript, latex_content,
                    refine, cls, gen, original_cwd >>

\* generator.py:263-266  tex_file.write_text(latex_code)
CompileWriteTex ==
    /\ pc = "c_write"
    /\ \E io \in IoOutcomes :
          IF io = "ok"
          THEN /\ fs' = [fs EXCEPT !.tex = latex_content]
               /\ pc' = "c_chdir"
               /\ UNCHANGED << cwd, exc, exit_status, log >>
          ELSE /\ EscapeCompile("OSError: write_text")
               /\ UNCHANGED fs
    /\ UNCHANGED << entry, url, api_key, no_pdf, transcript, latex_content,
                    refine, cls, gen, original_cwd, comp >>

\* generator.py:267-269  original_cwd = os.getcwd(); os.chdir(output_dir), and the
\* except clauses of 295-299 for its failure
CompileChdir ==
    /\ pc = "c_chdir"
    /\ comp' = [comp EXCEPT !.original_cwd = cwd]
    /\ \E outcome \in ChdirOutcomes :
          IF outcome = "ok"
          THEN /\ cwd' = comp.output_dir
               /\ pc' = "c_run"
               /\ UNCHANGED << exc, exit_status, log >>
          ELSE /\ FinishCompile(IF outcome = "FileNotFoundError"
                                THEN "pdflatex not found"
                                ELSE "Unexpected error during compilation")
               /\ UNCHANGED cwd
    /\ UNCHANGED << entry, url, api_key, no_pdf, fs, transcript, latex_content,
                    refine, cls, gen, original_cwd >>

\* generator.py:271-277  one pass of the loop: subprocess.run(["pdflatex", ...],
\* check=True), and the except clauses of 291-297 for its failure
CompileRun ==
    /\ pc = "c_run"
    /\ Len(comp.runs) < Passes
    /\ \E outcome \in ToolOutcomes, made \in ToolByproducts, wrote \in BOOLEAN :
          /\ comp' = [comp EXCEPT !.runs = Append(comp.runs, outcome)]
          /\ fs' = CASE outcome = "ok" ->
                          [fs EXCEPT !.aux = fs.aux \cup made,
                                     !.pdf = IF wrote THEN "fresh" ELSE fs.pdf]
                     [] outcome = "CalledProcessError" ->
                          [fs EXCEPT !.aux = fs.aux \cup {".log"}]
                     [] OTHER -> fs
          /\ IF PassAborts(outcome)
             THEN FinishCompile(IF outcome = "FileNotFoundError"
                                THEN "pdflatex not found"
                                ELSE "LaTeX compilation failed!")
             ELSE /\ pc' = IF Len(comp.runs) + 1 < Passes THEN "c_run" ELSE "c_restore"
                  /\ UNCHANGED << exc, exit_status, log >>
    /\ UNCHANGED << entry, url, api_key, no_pdf, cwd, transcript, latex_content,
                    refine, cls, gen, original_cwd >>

\* generator.py:279  os.chdir(original_cwd)
CompileRestore ==
    /\ pc = "c_restore"
    /\ cwd' = comp.original_cwd
    /\ pc' = "c_check"
    /\ UNCHANGED << entry, url, api_key, no_pdf, fs, transcript, latex_content,
                    refine, cls, gen, original_cwd, comp, exc, exit_status, log >>

\* the byproducts left when path.unlink() raises at the k-th extension of the
\* list (k = 0: no unlink raises)
AfterUnlinks(aux, k) ==
    IF k = 0
    THEN aux \ {ByproductExts[i] : i \in 1..Len(ByproductExts)}
    ELSE aux \ {ByproductExts[i] : i \in 1..(k - 1)}

\* generator.py:281-289  if pdf_file.exists(): delete the byproducts, and the
\* except clause of 298-299 for a failing unlink
CompileCheck ==
    /\ pc = "c_check"
    /\ IF fs.pdf # "none"
       THEN \E k \in 0..Len(ByproductExts) :
               /\ k > 0 => ByproductExts[k] \in fs.aux
               /\ fs' = [fs EXCEPT !.aux = AfterUnlinks(fs.aux, k)]
               /\ FinishCompile(IF k = 0 THEN "PDF saved as"
                                ELSE "Unexpected error during compilation")
       ELSE /\ FinishCompile("PDF was not created.")
            /\ UNCHANGED fs
    /\ UNCHANGED << entry, url, api_key, no_pdf, cwd, transcript, latex_content,
                    refine, cls, gen, original_cwd, comp >>

---------------------------------------------------------------------------
\* main.py, main, after the compile step

\* main.py:156-162  finally: os.chdir(original_cwd); if pdf_path.is_file()
MainFinally ==
    /\ pc = "m_finally"
    /\ cwd' = original_cwd
    /\ log' = Append(log, IF fs.pdf # "none" THEN "PDF successfully created"
                          ELSE "PDF compilation finished but output file not found")
    /\ pc' = "summary"
    /\ UNCHANGED << entry, url, api_key, no_pdf, fs, transcript, latex_content,
                    refine, cls, gen, original_cwd, comp, exc, exit_status >>

\* main.py:164-172  the success summary; main returns
Summary ==
    /\ pc = "summary"
    /\ log' = Append(log, IF fs.pdf # "none" THEN "FINISHED SUCCESSFULLY, Final PDF"
                          ELSE "FINISHED SUCCESSFULLY")
    /\ pc' = "exited"
    /\ exit_status' = 0
    /\ UNCHANGED << entry, url, api_key, no_pdf, cwd, fs, transcript, latex_content,
                    refine, cls, gen, original_cwd, comp, exc >>

\* positions inside the try of main.py:153-157
InCompileStep == {"c_mkdir", "c_write", "c_chdir", "c_run", "c_restore", "c_check"}

\* main.py:177-179  except KeyboardInterrupt: sys.exit(130)
Interrupt ==
    /\ entry = "main"
    /\ pc # "exited"
    /\ pc' = "exited"
    /\ exc' = "KeyboardInterrupt"
    /\ exit_status' = 130
    /\ cwd' = IF pc \in InCompileStep THEN original_cwd ELSE cwd
    /\ log' = Append(log, "Interrupted. Exiting...")
    /\ UNCHANGED << entry, url, api_key, no_pdf, fs, transcript, latex_content,
                    refine, cls, gen, original_cwd, comp >>

---------------------------------------------------------------------------
\* Specifications

\* a run of main
Next ==
    \/ FetchTranscript
    \/ CheckLength
    \/ WriteTranscript
    \/ GenClient
    \/ GenClassify
    \/ GenRequest
    \/ WriteTex
    \/ MainChdir
    \/ CompileMkdir
    \/ CompileWriteTex
    \/ CompileChdir
    \/ CompileRun
    \/ CompileRestore
    \/ CompileCheck
    \/ MainFinally
    \/ Summary
    \/ Interrupt

Spec == Init /\ [][Next]_vars

\* a direct call of generate_latex_notes
NextNotes ==
    \/ GenClient
    \/ GenClassify
    \/ GenRequest

SpecNotes == InitNotes /\ [][NextNotes]_vars

\* a direct call of compile_latex_to_pdf
NextCompile ==
    \/ CompileMkdir
    \/ CompileWriteTex
    \/ CompileChdir
    \/ CompileRun
    \/ CompileRestore
    \/ CompileCheck

SpecCompile == InitCompile /\ [][NextCompile]_vars

---------------------------------------------------------------------------
\* Properties

\* the function the caller invoked has returned or raised
Finished == pc \in {"returned", "raised"}

\* main has logged msg
Logged(msg) == \E i \in 1..Len(log) : log[i] = msg

\* C1: in every run of main in which get_youtube_transcript returned a text whose
\* stripped length is below 200 (its error payloads included), neither
\* generate_latex_notes nor compile_latex_to_pdf is invoked, nothing is written,
\* and main ends with status 2 unless the run is interrupted from outside (130).
C1_TooShortIsFatal ==
    (transcript # None /\ Len(Strip(transcript)) < MinTranscriptLen) =>
        /\ pc \in {"check_len", "exited"}
        /\ ~cls.called /\ ~gen.called /\ ~comp.called
        /\ latex_content = None
        /\ fs \in PriorFs
        /\ pc = "exited" =>
              /\ exit_status = IF exc = "KeyboardInterrupt" THEN 130 ELSE 2
              /\ exit_status = 2 => exc = "ValueError: Transcript is too short or empty"

\* the fetcher returned its payload for a malformed URL and main ended with status 2
C1_Witness ==
    /\ pc = "exited"
    /\ exit_status = 2
    /\ transcript = InvalidUrlText
    /\ ~gen.called

\* the run was not cut short by an interrupt or by a failing write of file
RanPast(file) == exc \notin {"KeyboardInterrupt", file}

\* C2 as stated: once the fetcher has returned, the transcript is on disk when
\* the run ends, and so is the document source once the generator has returned,
\* whatever later check or stage failed (an interrupt or a failure of the write
\* itself aside).
C2_Original ==
    pc = "exited" =>
        /\ (transcript # None /\ RanPast("OSError: transcript.txt"))
              => fs.transcript = transcript
        /\ (latex_content # None /\ RanPast("OSError: lecture_notes.tex"))
              => fs.tex = latex_content

\* C2, amended: a transcript that passed the 200-character check is written to
\* transcript.txt before generation starts, the document source is written to
\* lecture_notes.tex before compilation starts, and both stay on disk whatever
\* the outcome of a later stage; a transcript that fails the check is not written.
C2_PersistedAfterCheck ==
    /\ ( /\ transcript # None
         /\ Len(Strip(transcript)) >= MinTranscriptLen
         /\ pc \notin {"check_len", "write_transcript"}
         /\ RanPast("OSError: transcript.txt") )
          => fs.transcript = transcript
    /\ (latex_content # None /\ pc # "write_tex" /\ RanPast("OSError: lecture_notes.tex"))
          => fs.tex = latex_content
    /\ cls.called => fs.transcript = transcript
    /\ comp.called => fs.tex = latex_content
    /\ (transcript # None /\ Len(Strip(transcript)) < MinTranscriptLen)
          => fs.transcript # transcript

\* the tool failed, main finished, and both files are on disk
C2_Witness ==
    /\ pc = "exited"
    /\ comp.runs = << "CalledProcessError" >>
    /\ fs.transcript = transcript
    /\ fs.tex = latex_content

\* no category name occurs in the text, whatever the case of its letters
NoCategoryIn(text) ==
    \A i \in 1..Len(categories) : ~Contains(Lower(text), Lower(categories[i]))

\* C3: for every transcript (the empty one included) and every outcome of the
\* classification request (a matching text, a non-matching text, an empty or
\* missing text, an exception), classify_transcript_subject returns one of the six
\* categories and does not raise; it returns General when the request failed or
\* no category name occurs in the response.
C3_ClassifierTotal ==
    cls.called =>
        /\ ~cls.result.raised
        /\ cls.result.value \in CategorySet
        /\ (cls.resp.raised \/ cls.resp.value = None \/ NoCategoryIn(cls.resp.value))
              => cls.result.value = General

\* the response had no text and the empty transcript was classified as General
C3_Witness ==
    /\ cls.called
    /\ cls.arg = << >>
    /\ ~cls.resp.raised /\ cls.resp.value = None
    /\ cls.result.value = General

\* C4 as stated: refine_transcript_for_notes never raises, and returns the raw
\* transcript when the service, the construction of its client included, fails
\* or answers with nothing.
C4_RefinerNeverRaises ==
    refine.called =>
        /\ ~refine.result.raised
        /\ ( \/ ~ClientConstructs(api_key)
             \/ refine.resp.raised
             \/ EmptyResponse(refine.resp) )
              => refine.result.value = refine.arg

\* C5 as stated: generate_latex_notes never raises; on an empty response or a
\* service exception it returns a text starting with "Error", and a text that
\* does not start with "Error" only when the request succeeded with a text.
C5_GeneratorNeverRaises ==
    /\ pc # "raised"
    /\ gen.called =>
          /\ (gen.resp.raised \/ EmptyResponse(gen.resp))
                => StartsWith(latex_content, ErrorWord)
          /\ ~StartsWith(latex_content, ErrorWord)
                => (~gen.resp.raised /\ ~EmptyResponse(gen.resp))

\* the last run of the tool did not exit with success
ToolFailed ==
    /\ comp.runs # << >>
    /\ comp.runs[Len(comp.runs)] \in {"CalledProcessError", "FileNotFoundError"}

\* C6 as stated: after a compile step that started the tool, lecture_notes.pdf
\* exists and is reported as created only if this run's compilation produced
\* it; when the tool is missing or exits with failure there is no artifact and
\* none is reported, whatever the output directory held before.
C6_ArtifactOnlyIfProduced ==
    (comp.runs # << >> /\ pc \in {"summary", "exited"} /\ exit_status \in {-1, 0}) =>
        /\ (fs.pdf # "none" \/ Logged("PDF successfully created")) => fs.pdf = "fresh"
        /\ ToolFailed => (fs.pdf = "none" /\ ~Logged("PDF successfully created"))

\* C7 as stated: once compile_latex_to_pdf has started the tool, it runs it
\* exactly twice, whatever the outcome of the first pass.
C7_Original == (Finished /\ comp.runs # << >>) => Len(comp.runs) = Passes

\* C7, amended: the tool is run at most twice; a pass is started only after
\* every earlier pass exited with success, so a first pass that fails or finds
\* no binary is the only pass; when the first pass succeeds the second is always
\* started, and no third pass ever is.
C7_TwoPassPolicy ==
    /\ Len(comp.runs) <= Passes
    /\ \A i \in 1..(Len(comp.runs) - 1) : comp.runs[i] = "ok"
    /\ (Finished /\ comp.runs # << >>) =>
          (Len(comp.runs) = Passes <=> comp.runs[1] = "ok")
    /\ pc \in {"c_restore", "c_check"} => comp.runs = << "ok", "ok" >>

\* the first pass succeeded, the second failed, and the function returned
C7_Witness ==
    /\ pc = "returned"
    /\ comp.runs = << "ok", "CalledProcessError" >>

\* C8 as stated: no failure of a step of compile_latex_to_pdf raises past it.
C8_CompilerNeverRaises == pc # "raised"

\* a line whose first non-blank characters are three backticks
FenceMarkerLine(line) ==
    LET t == LStrip(line)
    IN  Len(t) >= 3 /\ \A i \in 1..3 : t[i] = Backtick

NotFenceMarkerLine(line) == ~FenceMarkerLine(line)

\* a line of white space only
Blank(line) == \A i \in 1..Len(line) : line[i] \in WS

\* the lines without the blank lines at both ends, the first line without its
\* leading and the last without its trailing white space
TrimEnds(lines) ==
    LET keep == {i \in 1..Len(lines) : ~Blank(lines[i])}
    IN  IF keep = {} THEN << >>
        ELSE LET a == SetMin(keep)
                 b == SetMax(keep)
             IN  [i \in 1..(b - a + 1) |->
                    LET l  == lines[a + i - 1]
                        l1 == IF i = 1 THEN LStrip(l) ELSE l
                    IN  IF i = b - a + 1 THEN RStrip(l1) ELSE l1]

\* generate_latex_notes returned for a non-empty response
Sanitized == gen.called /\ ~gen.resp.raised /\ ~EmptyResponse(gen.resp)

C10_WorkingDirectoryRestored == Finished => cwd = comp.cwd_at_call

====
